---- MODULE Spec2Model ----
(***************************************************************************)
(* Model of neuronlab_api/data.py: the NeuronLabAPI client.                *)
(*                                                                         *)
(* The client owns one flag, _fetch_score, and a requests.Session whose    *)
(* adapter retries with urllib3's Retry(total=max_tries,                   *)
(* backoff_factor=0.2, raise_on_status=False).  Every public method is     *)
(* one handler: it builds the query parameters, sends one GET through the  *)
(* session (the retry layer may re-issue it) and turns the response into   *)
(* a return value or an exception.                                         *)
(*                                                                         *)
(* The remote service and the network are the environment: each call is    *)
(* given the outcomes the successive HTTP attempts would obtain.           *)
(***************************************************************************)
EXTENDS Integers, Sequences, FiniteSets, TLC

VARIABLES
    fetch_score,   \* self._fetch_score
    max_tries,     \* the constructor argument max_tries (Retry total)
    last,          \* the last completed dataset / formatted call, as observed
    log,           \* the operations in the order they took effect
    pc,            \* per thread: position inside _get_document_dataset
    tpayload,      \* per thread: the local variable payload
    raced          \* history: a thread read the flag set while another
                   \* thread was between its read and its clear of the flag

vars == <<fetch_score, max_tries, last, log, pc, tpayload, raced>>

---------------------------------------------------------------------------
(* Bounds of the model *)

\* largest max_tries a client is constructed with (the default, 5, included)
MaxTries == 5
\* operations in one sequential run
MaxCalls == 3
\* operations in one concurrent run
MaxThreadCalls == 4

Threads == {1, 2}

---------------------------------------------------------------------------
(* The environment: HTTP attempts and what they obtain *)

None == "None"

\* A response body, by what response.json() and the key tests make of it.
\*   json    : the body decodes as a JSON object
\*   data    : the object has the key "data"
\*   error   : the value under "error": absent, null, a JSON object, or a
\*             JSON string that does not contain the text "message"
\*   message : the value under error.message (None when absent)
Body(json, data, error, message) ==
    [json |-> json, data |-> data, error |-> error, message |-> message]

NotJsonBody   == Body(FALSE, FALSE, "absent", None)   \* empty or HTML body
DataBody      == Body(TRUE, TRUE, "absent", None)     \* {"data": ...}
EmptyObject   == Body(TRUE, FALSE, "absent", None)    \* {}
ErrorNoMsg    == Body(TRUE, FALSE, "object", None)    \* {"error": {}}
ErrorWithMsg  == Body(TRUE, FALSE, "object", "bad doc")
                                          \* {"error": {"message": "bad doc"}}
ErrorNull     == Body(TRUE, FALSE, "null", None)      \* {"error": null}
ErrorText     == Body(TRUE, FALSE, "text", None)      \* {"error": "Forbidden"}

Bodies == {NotJsonBody, DataBody, EmptyObject, ErrorNoMsg, ErrorWithMsg,
           ErrorNull, ErrorText}

\* One status of each class the client can be handed: 1xx, 2xx, 3xx (not a
\* redirect the session follows), 400, 403, another 4xx, 5xx.
Statuses == {101, 200, 304, 400, 403, 404, 503}

\* What one HTTP attempt obtains: a transport failure (connection error,
\* read error: no status) or a response.
Response(status, retry_after, body) ==
    [transport |-> FALSE, status |-> status, retry_after |-> retry_after,
     body |-> body]

TransportFailure ==
    [transport |-> TRUE, status |-> 0, retry_after |-> FALSE,
     body |-> NotJsonBody]

Responses ==
    {Response(s, ra, b) : s \in Statuses, ra \in BOOLEAN, b \in Bodies}

Outcomes == Responses \cup {TransportFailure}

\* What the attempts of one call obtain, in order: the first n attempts
\* obtain `first`, every later one `rest`.  tries + 1 entries: the retry
\* layer never makes more attempts than that.
Script(n, first, rest, tries) ==
    [i \in 1..(tries + 1) |-> IF i <= n THEN first ELSE rest]

Scripts(tries) ==
    {Script(n, first, rest, tries) :
        n \in {0, 1, tries, tries + 1},
        first \in {TransportFailure, Response(503, TRUE, ErrorWithMsg)},
        rest \in Outcomes}

\* A few scripts, one for each way a call can complete.
FewScripts(tries) ==
    {Script(n, TransportFailure, rest, tries) :
        n \in {0, tries + 1},
        rest \in {Response(200, FALSE, DataBody),
                  Response(400, FALSE, ErrorWithMsg),
                  Response(503, FALSE, NotJsonBody)}}

---------------------------------------------------------------------------
(* The session: requests through the HTTPAdapter mounted in __init__ *)

\* urllib3: Retry.RETRY_AFTER_STATUS_CODES
RETRY_AFTER_STATUS_CODES == {413, 429, 503}

\* Retry(total=max_tries, ...): the number of retries allowed
RetryTotal(tries) == tries

\* is_retry as it would be with status_forcelist covering the 5xx statuses
is_retry_ServerErrors(total, status, has_retry_after) ==
    total # 0 /\ (status >= 500 \/
                  (has_retry_after /\ status \in RETRY_AFTER_STATUS_CODES))

\* Retry.is_retry under the policy __init__ builds: no status_forcelist is
\* given, so no status is retried for its own sake; respect_retry_after_header
\* keeps its default, so a 413, 429 or 503 that carries a Retry-After header
\* is retried while retries remain.
is_retry(total, status, has_retry_after) ==
    total # 0 /\ has_retry_after /\ status \in RETRY_AFTER_STATUS_CODES

\* The attempts of one session.get: attempt i obtains outcomes[i]; seen is
\* what the attempts made have obtained, response the last of them.  A
\* transport failure, or a response is_retry accepts, consumes one retry
\* (Retry.increment); when none is left a transport failure surfaces as
\* requests' ConnectionError, and, raise_on_status being False, a response
\* is handed to the caller as it is.
RECURSIVE urlopen(_, _, _)
urlopen(outcomes, i, total) ==
    LET o == outcomes[IF i > Len(outcomes) THEN Len(outcomes) ELSE i]
        done == [attempts |-> i, seen |-> SubSeq(outcomes, 1, i),
                 response |-> o, transport_error |-> o.transport]
    IN  IF o.transport \/ is_retry(total, o.status, o.retry_after)
        THEN IF total - 1 < 0
             THEN done
             ELSE urlopen(outcomes, i + 1, total - 1)
        ELSE done

session_get(outcomes, tries) == urlopen(outcomes, 1, RetryTotal(tries))

---------------------------------------------------------------------------
(* Turning the response into a result: the try / except of both handlers *)

\* Response.raise_for_status: HTTPError for 4xx and 5xx, nothing otherwise
raise_for_status(status) == status >= 400 /\ status < 600

\* if status_code == 400 / elif == 403 / else
ErrorKind(status) ==
    IF status = 400 THEN "NeuronLabBadRequestException"
    ELSE IF status = 403 THEN "NeuronLabUserNotFoundException"
    ELSE "NeuronLabInternalServerException"

\* response_message = "Unknown error", replaced by error.message when
\* "error" in body and "message" in body["error"]
response_message(body) ==
    IF body.error = "object" /\ body.message # None
    THEN body.message
    ELSE "Unknown error"

Outcome(raised, message, returned) ==
    [raised |-> raised, message |-> message, returned |-> returned]

\* Lines 157-178 and 218-239, on the response the session handed over.
map_response(response) ==
    IF raise_for_status(response.status)
    THEN \* except requests.exceptions.HTTPError
         IF ~response.body.json
         THEN Outcome("JSONDecodeError", None, FALSE)  \* err_response.json()
         ELSE IF response.body.error = "null"
         THEN Outcome("TypeError", None, FALSE)  \* "message" in None
         ELSE Outcome(ErrorKind(response.status),
                      response_message(response.body), FALSE)
    ELSE \* response_json = response.json(); return response_json["data"]
         IF ~response.body.json
         THEN Outcome("JSONDecodeError", None, FALSE)
         ELSE IF ~response.body.data
         THEN Outcome("KeyError", None, FALSE)
         ELSE Outcome(None, None, TRUE)

\* The request of one handler and what comes of it.
send(payload, outcomes, tries) ==
    LET got == session_get(outcomes, tries)
        out == IF got.transport_error
               THEN Outcome("ConnectionError", None, FALSE)
               ELSE map_response(got.response)
    IN  [payload |-> payload, attempts |-> got.attempts,
         seen |-> got.seen, response |-> got.response,
         got_response |-> ~got.transport_error,
         raised |-> out.raised, message |-> out.message,
         returned |-> out.returned]

---------------------------------------------------------------------------
(* _get_document_dataset *)

EmptyPayload == [k \in {} |-> ""]

Documents == {<<>>, <<"d1">>, <<"d1", "d2">>}

\* ",".join(documents)
RECURSIVE Join(_)
Join(documents) ==
    IF Len(documents) = 0 THEN ""
    ELSE IF Len(documents) = 1 THEN documents[1]
    ELSE documents[1] \o "," \o Join(Tail(documents))

\* the check left out
EmptyDocuments_Unchecked(documents) == FALSE

\* if len(documents) == 0
EmptyDocuments(documents) == Len(documents) = 0

\* if self._fetch_score: payload["useScore"] = "true"
ScoreParam(flag) == IF flag THEN ("useScore" :> "true") ELSE EmptyPayload

\* the flag never reset
FlagAfterFetch_Sticky(flag) == flag

\* if self._fetch_score: ...; self._fetch_score = False
FlagAfterFetch(flag) == IF flag THEN FALSE ELSE flag

\* payload = {}; payload["{}s".format(document_type)] = ...; useScore
BatchPayload(flag, document_type, documents) ==
    ((document_type \o "s") :> Join(documents)) @@ ScoreParam(flag)

\* no request was sent: there is no response
NoAttempt == Response(0, FALSE, NotJsonBody)

InvalidArgs ==
    [payload |-> EmptyPayload, attempts |-> 0, seen |-> <<>>,
     response |-> NoAttempt, got_response |-> FALSE,
     raised |-> "NeuronLabInvalidArgs",
     message |-> "Empty document list, at least one document expected",
     returned |-> FALSE]

\* the handler resetting the flag only once the call has returned
_get_document_dataset_ClearOnReturn(flag, document_type, documents, outcomes, tries) ==
    IF EmptyDocuments(documents)
    THEN [flag |-> flag, result |-> InvalidArgs]
    ELSE LET r == send(BatchPayload(flag, document_type, documents),
                       outcomes, tries)
         IN  [flag |-> IF r.returned THEN FALSE ELSE flag, result |-> r]

\* The handler: the flag it leaves and the result it gives.
_get_document_dataset(flag, document_type, documents, outcomes, tries) ==
    IF EmptyDocuments(documents)
    THEN [flag |-> flag, result |-> InvalidArgs]
    ELSE [flag |-> FlagAfterFetch(flag),
          result |-> send(BatchPayload(flag, document_type, documents),
                          outcomes, tries)]

---------------------------------------------------------------------------
(* _get_formatted_documents *)

Date(year, month, day) == [year |-> year, month |-> month, day |-> day]

NoDate == Date(0, 0, 0)     \* start_date / end_date is None

Dates == {Date(2024, 1, 5), Date(1999, 12, 31)}

\* a decimal number, zero-padded to the width
RECURSIVE ZeroPad(_, _)
ZeroPad(s, width) == IF Len(s) >= width THEN s ELSE ZeroPad("0" \o s, width)

\* date.strftime("%Y-%m-%d")
strftime(d) ==
    ZeroPad(ToString(d.year), 4) \o "-" \o ZeroPad(ToString(d.month), 2)
        \o "-" \o ZeroPad(ToString(d.day), 2)

\* if start_date is not None: payload["startDate"] = ...
StartParam(start_date) ==
    IF start_date # NoDate
    THEN ("startDate" :> strftime(start_date)) ELSE EmptyPayload

\* if end_date is not None: payload["endDate"] = ...
EndParam(end_date) ==
    IF end_date # NoDate
    THEN ("endDate" :> strftime(end_date)) ELSE EmptyPayload

\* the dates sent only as a pair
FormattedPayload_BothOrNone(start_date, end_date) ==
    IF start_date # NoDate /\ end_date # NoDate
    THEN StartParam(start_date) @@ EndParam(end_date)
    ELSE EmptyPayload

FormattedPayload(start_date, end_date) ==
    StartParam(start_date) @@ EndParam(end_date)

\* the handler resetting the flag as the dataset handler does
FlagAfterFormatted_Clears(flag) == FALSE

\* the handler leaves self._fetch_score alone
FlagAfterFormatted(flag) == flag

_get_formatted_documents(flag, document_type, start_date, end_date, outcomes, tries) ==
    [flag |-> FlagAfterFormatted(flag),
     result |-> send(FormattedPayload(start_date, end_date), outcomes, tries)]

---------------------------------------------------------------------------
(* The client, one caller: every handler is one step *)

NoResult ==
    [payload |-> EmptyPayload, attempts |-> 0, seen |-> <<>>,
     response |-> NoAttempt, got_response |-> FALSE, raised |-> None,
     message |-> None, returned |-> FALSE]

Call(op, document_type, documents, start_date, end_date, flag, result) ==
    [op |-> op, document_type |-> document_type, documents |-> documents,
     start_date |-> start_date, end_date |-> end_date,
     flag_before |-> flag, result |-> result]

NoCall == Call("none", "", <<>>, NoDate, NoDate, FALSE, NoResult)

Entry(op, thread, use_score, empty) ==
    [op |-> op, thread |-> thread, use_score |-> use_score, empty |-> empty]

Init ==
    /\ fetch_score = FALSE
    /\ max_tries \in 0..MaxTries
    /\ last = NoCall
    /\ log = <<>>
    /\ pc = [t \in Threads |-> "idle"]
    /\ tpayload = [t \in Threads |-> EmptyPayload]
    /\ raced = FALSE

SetScore ==
    /\ fetch_score' = TRUE
    /\ log' = Append(log, Entry("with_score", 1, FALSE, FALSE))
    /\ UNCHANGED <<max_tries, last, pc, tpayload, raced>>

DatasetCall(document_type, scripts) ==
    \E documents \in Documents, outcomes \in scripts :
        LET r == _get_document_dataset(fetch_score, document_type,
                                       documents, outcomes, max_tries)
        IN  /\ fetch_score' = r.flag
            /\ last' = Call("batch", document_type, documents, NoDate,
                            NoDate, fetch_score, r.result)
            /\ log' = Append(log,
                    Entry("batch", 1, "useScore" \in DOMAIN r.result.payload,
                          documents = <<>>))
            /\ UNCHANGED <<max_tries, pc, tpayload, raced>>

FormattedCall(document_type, scripts) ==
    \E start_date \in Dates \cup {NoDate}, end_date \in Dates \cup {NoDate},
       outcomes \in scripts :
        LET r == _get_formatted_documents(fetch_score, document_type,
                    start_date, end_date, outcomes, max_tries)
        IN  /\ fetch_score' = r.flag
            /\ last' = Call("formatted", document_type, <<>>, start_date,
                            end_date, fetch_score, r.result)
            /\ log' = Append(log,
                    Entry("formatted", 1,
                          "useScore" \in DOMAIN r.result.payload, FALSE))
            /\ UNCHANGED <<max_tries, pc, tpayload, raced>>

with_score == Len(log) < MaxCalls /\ SetScore

get_cnpj_dataset ==
    Len(log) < MaxCalls /\ DatasetCall("cnpj", FewScripts(max_tries))

get_cpf_dataset ==
    Len(log) < MaxCalls /\ DatasetCall("cpf", FewScripts(max_tries))

fetch_all_cnpj_formatted ==
    Len(log) < MaxCalls /\ FormattedCall("cnpj", FewScripts(max_tries))

fetch_all_cpf_formatted ==
    Len(log) < MaxCalls /\ FormattedCall("cpf", FewScripts(max_tries))

Next ==
    \/ with_score
    \/ get_cnpj_dataset
    \/ get_cpf_dataset
    \/ fetch_all_cnpj_formatted
    \/ fetch_all_cpf_formatted

Spec == Init /\ [][Next]_vars

---------------------------------------------------------------------------
(* One call of a fresh client, against everything the service can answer *)

first_with_score == log = <<>> /\ SetScore

first_get_cnpj_dataset ==
    last.op = "none" /\ DatasetCall("cnpj", Scripts(max_tries))

first_get_cpf_dataset ==
    last.op = "none" /\ DatasetCall("cpf", Scripts(max_tries))

first_fetch_all_cnpj_formatted ==
    last.op = "none" /\ FormattedCall("cnpj", Scripts(max_tries))

first_fetch_all_cpf_formatted ==
    last.op = "none" /\ FormattedCall("cpf", Scripts(max_tries))

NextHttp ==
    \/ first_with_score
    \/ first_get_cnpj_dataset
    \/ first_get_cpf_dataset
    \/ first_fetch_all_cnpj_formatted
    \/ first_fetch_all_cpf_formatted

SpecHttp == Init /\ [][NextHttp]_vars

---------------------------------------------------------------------------
(* Two threads on one client: _get_document_dataset line by line *)

InFlight == {t \in Threads : pc[t] # "idle"}

MayStart(t) ==
    pc[t] = "idle" /\ Len(log) + Cardinality(InFlight) < MaxThreadCalls

\* with_score(), called by thread t
t_with_score(t) ==
    /\ MayStart(t)
    /\ fetch_score' = TRUE
    /\ log' = Append(log, Entry("with_score", t, FALSE, FALSE))
    /\ UNCHANGED <<max_tries, last, pc, tpayload, raced>>

\* lines 199-207: the empty-list check and the payload of the documents
t_enter(t) ==
    /\ MayStart(t)
    /\ \E document_type \in {"cnpj", "cpf"}, documents \in Documents :
          IF EmptyDocuments(documents)
          THEN /\ log' = Append(log, Entry("batch", t, FALSE, TRUE))
               /\ UNCHANGED <<pc, tpayload>>
          ELSE /\ pc' = [pc EXCEPT ![t] = "L209"]
               /\ tpayload' = [tpayload EXCEPT
                      ![t] = BatchPayload(FALSE, document_type, documents)]
               /\ UNCHANGED log
    /\ UNCHANGED <<fetch_score, max_tries, last, raced>>

\* line 209: if self._fetch_score
t_test_flag(t) ==
    /\ pc[t] = "L209"
    /\ pc' = [pc EXCEPT ![t] = IF fetch_score THEN "L210" ELSE "L216"]
    /\ raced' = (raced \/ (fetch_score /\
                    \E u \in Threads \ {t} : pc[u] \in {"L210", "L211"}))
    /\ UNCHANGED <<fetch_score, max_tries, last, log, tpayload>>

\* line 210: payload["useScore"] = "true"
t_set_param(t) ==
    /\ pc[t] = "L210"
    /\ tpayload' = [tpayload EXCEPT ![t] = tpayload[t] @@ ScoreParam(TRUE)]
    /\ pc' = [pc EXCEPT ![t] = "L211"]
    /\ UNCHANGED <<fetch_score, max_tries, last, log, raced>>

\* line 211 left out
t_clear_flag_Skipped(t) ==
    /\ pc[t] = "L211"
    /\ pc' = [pc EXCEPT ![t] = "L216"]
    /\ UNCHANGED <<fetch_score, max_tries, last, log, tpayload, raced>>

\* line 211: self._fetch_score = False
t_clear_flag(t) ==
    /\ pc[t] = "L211"
    /\ fetch_score' = FlagAfterFetch(TRUE)
    /\ pc' = [pc EXCEPT ![t] = "L216"]
    /\ UNCHANGED <<max_tries, last, log, tpayload, raced>>

\* line 216: the request leaves with the thread's payload; what comes back
\* touches nothing the threads share
t_request(t) ==
    /\ pc[t] = "L216"
    /\ log' = Append(log,
            Entry("batch", t, "useScore" \in DOMAIN tpayload[t], FALSE))
    /\ pc' = [pc EXCEPT ![t] = "idle"]
    /\ tpayload' = [tpayload EXCEPT ![t] = EmptyPayload]
    /\ UNCHANGED <<fetch_score, max_tries, last, raced>>

NextConc ==
    \E t \in Threads :
        \/ t_with_score(t)
        \/ t_enter(t)
        \/ t_test_flag(t)
        \/ t_set_param(t)
        \/ t_clear_flag(t)
        \/ t_request(t)

SpecConc == Init /\ [][NextConc]_vars

---------------------------------------------------------------------------
(* Properties *)

Result == last.result

TypedErrors ==
    {"NeuronLabInvalidArgs", "NeuronLabBadRequestException",
     "NeuronLabUserNotFoundException", "NeuronLabInternalServerException"}

HttpErrors == TypedErrors \ {"NeuronLabInvalidArgs"}

Non2xx(status) == ~(status >= 200 /\ status < 300)

IsCall == last.op \in {"batch", "formatted"}

NonEmptyBatch(e) == e.op = "batch" /\ ~e.empty

NWithScore(k) == Cardinality({i \in 1..k : log[i].op = "with_score"})

NScored(k) == Cardinality({i \in 1..k : log[i].use_score})

\* C1: a dataset call with an empty document list raises
\* NeuronLabInvalidArgs and sends no HTTP request, whatever the flag is.
C1_EmptyListFailsFast ==
    (last.op = "batch" /\ last.documents = <<>>)
        => /\ Result.raised = "NeuronLabInvalidArgs"
           /\ Result.attempts = 0
           /\ ~Result.returned

C1_Witness ==
    /\ last.op = "batch" /\ last.documents = <<>> /\ last.flag_before
    /\ Result.raised = "NeuronLabInvalidArgs"

\* C2: the score flag is one-shot.  At every point of a run the requests
\* that carried useScore are no more than the with_score() calls made before
\* them; and of two dataset calls with non-empty lists that follow a
\* with_score() with no with_score() in between, the first carries useScore
\* and the second does not.
C2_OneShot ==
    /\ \A k \in 1..Len(log) : NScored(k) <= NWithScore(k)
    /\ \A i, j, k \in 1..Len(log) :
          (/\ i < j /\ j < k
           /\ log[i].op = "with_score"
           /\ NonEmptyBatch(log[j]) /\ NonEmptyBatch(log[k])
           /\ \A m \in (i + 1)..k : log[m].op # "with_score"
           /\ \A m \in (i + 1)..(j - 1) : ~NonEmptyBatch(log[m]))
              => log[j].use_score /\ ~log[k].use_score

C2_Witness ==
    /\ Len(log) = 3
    /\ log[1].op = "with_score"
    /\ NonEmptyBatch(log[2]) /\ log[2].use_score
    /\ NonEmptyBatch(log[3]) /\ ~log[3].use_score

\* C3 as claimed: once the dataset call that follows with_score() has
\* returned or raised, in whatever way, _fetch_score is False.
C3_ClearedHoweverCompleted ==
    (/\ Len(log) >= 2
     /\ log[Len(log) - 1].op = "with_score"
     /\ log[Len(log)].op = "batch")
        => ~fetch_score

\* C3 amended: a dataset call that gets past the empty-list check leaves
\* _fetch_score False however it then completes (return, typed error,
\* transport or decoding error); the call rejected for its empty list leaves
\* the flag as it found it, so a flag set before it is still set after it.
C3_ClearedUnlessRejected ==
    /\ (Len(log) >= 1 /\ NonEmptyBatch(log[Len(log)])) => ~fetch_score
    /\ (Len(log) >= 1 /\ log[Len(log)].op = "batch" /\ log[Len(log)].empty)
          => fetch_score = last.flag_before

C3_Witness ==
    /\ Len(log) = 2
    /\ log[1].op = "with_score"
    /\ NonEmptyBatch(log[2]) /\ log[2].use_score
    /\ Result.raised = "ConnectionError"
    /\ ~fetch_score

\* the error kind C4 gives each status
ClaimedKind(status) ==
    CASE status = 400 -> "NeuronLabBadRequestException"
      [] status = 403 -> "NeuronLabUserNotFoundException"
      [] OTHER -> "NeuronLabInternalServerException"

\* C4 as claimed: for both handlers a response whose status is not 2xx
\* raises the error its status decides (400 BadRequest, 403 UserNotFound,
\* any other InternalServer) and never ends in a normal return.
C4_StatusDecidesError ==
    (IsCall /\ Result.got_response /\ Non2xx(Result.response.status))
        => /\ Result.raised = ClaimedKind(Result.response.status)
           /\ ~Result.returned

\* C5 as claimed, on the responses that reach the except clause (4xx, 5xx)
\* with a body that decodes: a typed error is raised, its message is
\* error.message when the body has that field and "Unknown error" when it
\* has not; the missing field never keeps the typed error from being raised.
C5_MessageOrUnknown ==
    (/\ IsCall /\ Result.got_response
     /\ Result.response.status >= 400 /\ Result.response.status < 600
     /\ Result.response.body.json)
        => /\ Result.raised \in HttpErrors
           /\ Result.message =
                 IF Result.response.body.message # None
                 THEN Result.response.body.message
                 ELSE "Unknown error"

\* a response the retry layer re-issues for its Retry-After header
RetryAfterResponse(o) ==
    ~o.transport /\ o.retry_after /\ o.status \in {413, 429, 503}

\* C6 as claimed: when the first attempt obtains a response whose status is
\* not 2xx, the call sends exactly one HTTP request and completes from that
\* first response; an attempt is followed by another only when it failed at
\* transport level.
C6_NoRetryOnStatus ==
    /\ (IsCall /\ Result.attempts >= 1 /\ ~Result.seen[1].transport
          /\ Non2xx(Result.seen[1].status))
          => Result.attempts = 1 /\ Result.response = Result.seen[1]
    /\ IsCall =>
          \A i \in 1..(Result.attempts - 1) : Result.seen[i].transport

\* C6 amended: when the first attempt obtains a response whose status is
\* not 2xx, and that response is not a 413, 429 or 503 carrying Retry-After,
\* the call sends exactly one HTTP request and completes from that first
\* response; an attempt is followed by another only when it failed at
\* transport level or obtained such a Retry-After response.
C6_NoRetryUnlessRetryAfter ==
    /\ (IsCall /\ Result.attempts >= 1 /\ ~Result.seen[1].transport
          /\ Non2xx(Result.seen[1].status)
          /\ ~RetryAfterResponse(Result.seen[1]))
          => Result.attempts = 1 /\ Result.response = Result.seen[1]
    /\ IsCall =>
          \A i \in 1..(Result.attempts - 1) :
              Result.seen[i].transport \/ RetryAfterResponse(Result.seen[i])

C6_Witness ==
    /\ IsCall /\ Result.attempts = 1
    /\ Result.seen[1] = Response(503, FALSE, ErrorWithMsg)
    /\ Result.raised = "NeuronLabInternalServerException"
    /\ max_tries = 5

\* C7 as claimed: when every attempt of a call fails at transport level the
\* call makes at most max_tries attempts (of a client built with
\* max_tries >= 1) and ends by raising an error that is none of the typed
\* ones; it returns nothing.
C7_AtMostMaxTriesAttempts ==
    (/\ IsCall /\ max_tries >= 1 /\ Result.attempts >= 1
     /\ \A i \in 1..Result.attempts : Result.seen[i].transport)
        => /\ Result.attempts <= max_tries
           /\ Result.raised # None /\ Result.raised \notin TypedErrors
           /\ ~Result.returned

\* the text of each date of the model in the form YYYY-MM-DD
IsoText(d) ==
    CASE d = Date(2024, 1, 5) -> "2024-01-05"
      [] d = Date(1999, 12, 31) -> "1999-12-31"

\* C8: a formatted export sends startDate exactly when start_date is given
\* and endDate exactly when end_date is given, each on its own, each as
\* YYYY-MM-DD, and sends no other parameter.
C8_DateParams ==
    last.op = "formatted" =>
        /\ DOMAIN Result.payload =
              (IF last.start_date # NoDate THEN {"startDate"} ELSE {})
                \cup (IF last.end_date # NoDate THEN {"endDate"} ELSE {})
        /\ last.start_date # NoDate =>
              Result.payload["startDate"] = IsoText(last.start_date)
        /\ last.end_date # NoDate =>
              Result.payload["endDate"] = IsoText(last.end_date)

C8_Witness ==
    /\ last.op = "formatted"
    /\ last.start_date = NoDate /\ last.end_date = Date(2024, 1, 5)
    /\ DOMAIN Result.payload = {"endDate"}
    /\ Result.payload["endDate"] = "2024-01-05"

\* C9: with two threads on one client the flag is not one-shot, and the
\* cause is the gap between reading it and clearing it: more requests carry
\* useScore than with_score() was called only when a thread read the flag
\* set while the other thread stood between its own read and its clear.
\* The witness is such a run: one with_score(), by thread 1, and a request
\* with useScore from each thread.
C9_ExtraScoreOnlyByRace ==
    NScored(Len(log)) > NWithScore(Len(log)) => raced

C9_Witness ==
    /\ NWithScore(Len(log)) = 1
    /\ \E i \in 1..Len(log) : log[i].op = "with_score" /\ log[i].thread = 1
    /\ \E i \in 1..Len(log) :
          log[i].op = "batch" /\ log[i].thread = 1 /\ log[i].use_score
    /\ \E i \in 1..Len(log) :
          log[i].op = "batch" /\ log[i].thread = 2 /\ log[i].use_score

\* C10: a formatted export leaves _fetch_score as it found it and never
\* sends useScore; so after with_score(), a formatted export and then a
\* dataset call with a non-empty list, the dataset call sends useScore.
C10_FormattedLeavesFlag ==
    /\ (Len(log) >= 1 /\ log[Len(log)].op = "formatted")
          => /\ fetch_score = last.flag_before
             /\ ~log[Len(log)].use_score
             /\ "useScore" \notin DOMAIN Result.payload
    /\ \A i \in 1..(Len(log) - 2) :
          (/\ log[i].op = "with_score"
           /\ log[i + 1].op = "formatted"
           /\ NonEmptyBatch(log[i + 2]))
              => log[i + 2].use_score

C10_Witness ==
    /\ Len(log) = 3
    /\ log[1].op = "with_score"
    /\ log[2].op = "formatted"
    /\ NonEmptyBatch(log[3]) /\ log[3].use_score
    /\ Result.returned

====
